---- MODULE Spec2Model ----
(***************************************************************************)
(* Model of the prediction-market bookkeeping service of src/main.py:      *)
(* the two tables (events, bets), the request contracts of src/models and  *)
(* one action per HTTP endpoint.  A handler is a pure operator from the    *)
(* request and the store to a result (status, body, new store); the        *)
(* action of an endpoint validates the request, routes it, applies the     *)
(* handler and records the response.                                       *)
(*                                                                         *)
(* tokens is a Float column; the model draws token amounts from small      *)
(* integers (3 stands for 3.0).                                            *)
(***************************************************************************)
EXTENDS Integers, Sequences, FiniteSets, TLC

VARIABLES events, bets, response

vars == <<events, bets, response>>

\* ------------------------------------------------------------ bounds --
\* Rows the bets table may hold when the process starts: in the
\* specification of the whole service, and in that of the read side.
MaxSeed == 1
MaxBets == 2
\* Largest value of the limit / skip query parameters that is drawn.
MaxLimit == 2

\* ------------------------------------------------------ value domains --
\* Python's None, and a present optional value.
None == <<>>
Some(x) == <<x>>

RequestIds == {"evt1", "evt2"}
Wallets == {"0xabc", "0xdef"}
PredictionType == {"YES", "NO"}
\* token amounts of requests: a valid one, zero and a negative one
TokenInputs == {-1, 0, 5}
PredictionInputs == {"YES", "NO", "MAYBE"}
\* token amounts of stored bets
TokenAmounts == {3, 5}

\* The create-event requests that are drawn: every field differs between the
\* two payloads of a key, one has a predict object and one has none.
EventCreate ==
    { [request_id |-> k, title |-> "Will it rain?", description |-> "d1",
       due_date |-> 1700000000, predict |-> None] : k \in RequestIds }
    \cup
    { [request_id |-> k, title |-> "Will it snow?", description |-> "d2",
       due_date |-> 1800000000,
       predict |-> Some([price |-> "100", symbol |-> "ETH"])] : k \in RequestIds }

\* The contracts mappings that are drawn (network name -> contract address).
ContractsUpdate ==
    { [n \in {"eth"} |-> "0xA1"],
      [n \in {"polygon"} |-> "0xB2"] }

\* The create-bet request bodies, before validation.
BetCreateInputs ==
    [event_request_id : RequestIds, wallet_address : {"0xabc"},
     prediction : PredictionInputs, tokens : TokenInputs, token_name : {"ETH"}]

\* BetCreate with tokens declared Field(ge=0).
BetCreateValid_ge(bet) ==
    /\ bet.prediction \in {"YES", "NO"}
    /\ bet.tokens >= 0

\* BetCreate: prediction is Literal["YES", "NO"], tokens is Field(gt=0).
BetCreateValid(bet) ==
    /\ bet.prediction \in PredictionType
    /\ bet.tokens > 0

\* Outcome of db.commit(): it goes through, or the database raises an error
\* other than a constraint violation.
Faults == {"none", "error"}

\* ------------------------------------------------------------- tables --
\* A row of table events as create_event builds it: contracts is not set.
Event(event) ==
    [request_id |-> event.request_id, title |-> event.title,
     description |-> event.description, due_date |-> event.due_date,
     predict |-> event.predict, contracts |-> None]

\* Attributes of the mapped class Bet: its columns and its relationship.
BetAttributes ==
    {"id", "event_request_id", "wallet_address", "prediction", "tokens", "event"}

\* A row of table bets.
BetRow(id, k, w, p, t) ==
    [id |-> id, event_request_id |-> k, wallet_address |-> w,
     prediction |-> p, tokens |-> t]

\* db.query(Event).filter(Event.request_id == request_id): the matching rows.
EventsByRequestId(evs, request_id) == {e \in evs : e.request_id = request_id}

EventKeys(evs) == {e.request_id : e \in evs}

\* A handler's outcome: the HTTP status, the response body and the store the
\* request leaves behind.
Result(status, body, evs, bts) ==
    [status |-> status, body |-> body, events |-> evs, bets |-> bts]

\* HTTPException(status_code, detail): raised before or after a rollback, the
\* store is the one the handler found.
HTTPException(status, detail, evs, bts) ==
    Result(status, [detail |-> detail], evs, bts)

\* An exception no handler catches: the server answers 500 and get_db closes
\* the session, so nothing pending is committed.
Unhandled(evs, bts) == Result(500, "Internal Server Error", evs, bts)

\* ----------------------------------------------------- SQL primitives --
\* The orderings of a finite set of rows.
Permutations_(rows) ==
    { s \in [1..Cardinality(rows) -> rows] :
        \A i, j \in 1..Cardinality(rows) : i # j => s[i] # s[j] }

Min(a, b) == IF a <= b THEN a ELSE b

\* .offset(skip).limit(limit) on an ordered result, skip and limit >= 0.
OffsetLimit(s, skip, limit) == SubSeq(s, skip + 1, Min(Len(s), skip + limit))

\* ORDER BY key ASC
OrderByDesc_asc(rows, key) ==
    { s \in Permutations_(rows) :
        \A i \in 1..(Len(s) - 1) : key[s[i]] <= key[s[i + 1]] }

\* ORDER BY key DESC: every ordering in which the key never increases (rows
\* with equal keys come in any order).
OrderByDesc(rows, key) ==
    { s \in Permutations_(rows) :
        \A i \in 1..(Len(s) - 1) : key[s[i]] >= key[s[i + 1]] }

RECURSIVE SumOver(_, _)
SumOver(rows, val) ==
    IF rows = {} THEN 0
    ELSE LET r == CHOOSE x \in rows : TRUE
         IN  val[r] + SumOver(rows \ {r}, val)

\* func.sum over the selected rows: NULL when there is none.
func_sum(rows, val) == IF rows = {} THEN None ELSE Some(SumOver(rows, val))

\* func.count()
func_count(rows) == Cardinality(rows)

\* Python's `x or 0` on an aggregate: None and 0 both give 0.
Or0(x) == IF x = None THEN 0 ELSE x[1]

\* ---------------------------------------------------------- handlers --
\* create_event that saves with db.merge: an existing row is overwritten.
create_event_merge(event, fault, evs, bts) ==
    LET db_event == [request_id |-> event.request_id, title |-> event.title,
                     description |-> event.description,
                     due_date |-> event.due_date, predict |-> event.predict,
                     contracts |-> <<>>]
    IN  IF fault = "error"
        THEN [status |-> 500,
              body |-> [detail |-> "An error occurred while saving the event"],
              events |-> evs, bets |-> bts]
        ELSE [status |-> 200, body |-> db_event,
              events |-> {e \in evs : e.request_id # event.request_id}
                             \cup {db_event},
              bets |-> bts]

\* create_event whose except branch does not roll back: the row stays.
create_event_norollback(event, fault, evs, bts) ==
    LET db_event == [request_id |-> event.request_id, title |-> event.title,
                     description |-> event.description,
                     due_date |-> event.due_date, predict |-> event.predict,
                     contracts |-> <<>>]
        dup == \E e \in evs : e.request_id = event.request_id
    IN  IF dup
        THEN [status |-> 400,
              body |-> [detail |-> "An event with this request ID already exists"],
              events |-> evs, bets |-> bts]
        ELSE [status |-> IF fault = "error" THEN 500 ELSE 200,
              body |-> db_event, events |-> evs \cup {db_event}, bets |-> bts]

\* POST /events
create_event(event, fault, evs, bts) ==
    LET db_event == Event(event)
    IN  IF fault = "error"
        THEN HTTPException(500, "An error occurred while saving the event",
                           evs, bts)
        ELSE IF EventsByRequestId(evs, db_event.request_id) # {}
        THEN \* primary key violation: IntegrityError, rollback
             HTTPException(400, "An event with this request ID already exists",
                           evs, bts)
        ELSE Result(200, db_event, evs \cup {db_event}, bts)

\* update_event_contracts that merges the new mapping into the stored one.
update_event_contracts_merge(request_id, contracts, fault, evs, bts) ==
    LET found == {e \in evs : e.request_id = request_id}
    IN  IF found = {}
        THEN [status |-> 404, body |-> [detail |-> "Event not found"],
              events |-> evs, bets |-> bts]
        ELSE LET db_event == CHOOSE e \in found : TRUE
                 merged == IF db_event.contracts = <<>> THEN contracts
                           ELSE contracts @@ db_event.contracts[1]
                 updated == [db_event EXCEPT !.contracts = <<merged>>]
             IN  IF fault = "error"
                 THEN [status |-> 500, body |-> "Internal Server Error",
                       events |-> evs, bets |-> bts]
                 ELSE [status |-> 200, body |-> updated,
                       events |-> (evs \ {db_event}) \cup {updated},
                       bets |-> bts]

\* PUT /events/{request_id}
update_event_contracts(request_id, contracts, fault, evs, bts) ==
    LET found == EventsByRequestId(evs, request_id)
    IN  IF found = {}
        THEN HTTPException(404, "Event not found", evs, bts)
        ELSE LET db_event == CHOOSE e \in found : TRUE
                 updated == [db_event EXCEPT !.contracts = Some(contracts)]
             IN  IF fault = "error"
                 THEN Unhandled(evs, bts)
                 ELSE Result(200, updated, (evs \ {db_event}) \cup {updated}, bts)

\* GET /events: the pages the query may return (no ORDER BY: storage order).
get_all_events(skip, limit, evs, bts) ==
    { Result(200, OffsetLimit(s, skip, limit), evs, bts) :
        s \in Permutations_(evs) }

\* GET /events/{request_id}, the handler registered first
get_event(request_id, evs, bts) ==
    LET found == EventsByRequestId(evs, request_id)
    IN  IF found = {}
        THEN HTTPException(404, "Event not found", evs, bts)
        ELSE Result(200, CHOOSE e \in found : TRUE, evs, bts)

\* Bet(**bet.dict()): the declarative constructor takes only keyword arguments
\* that are attributes of the class, and raises TypeError on any other.
Bet_init(kwargs) == DOMAIN kwargs \subseteq BetAttributes

NextBetId(bts) ==
    IF bts = {} THEN 1
    ELSE (CHOOSE i \in {b.id : b \in bts} : \A b \in bts : b.id <= i) + 1

\* create_bet without the lookup of the event.
create_bet_nolookup(bet, fault, evs, bts) ==
    IF ~Bet_init(bet)
    THEN [status |-> 500, body |-> "Internal Server Error",
          events |-> evs, bets |-> bts]
    ELSE IF fault = "error"
    THEN [status |-> 500,
          body |-> [detail |-> "An error occurred while saving the bet"],
          events |-> evs, bets |-> bts]
    ELSE LET db_bet == BetRow(NextBetId(bts), bet.event_request_id,
                              bet.wallet_address, bet.prediction, bet.tokens)
         IN  [status |-> 200, body |-> db_bet, events |-> evs,
              bets |-> bts \cup {db_bet}]

\* POST /bets, for a request body that passed validation
create_bet(bet, fault, evs, bts) ==
    IF EventsByRequestId(evs, bet.event_request_id) = {}
    THEN HTTPException(404, "Event not found", evs, bts)
    ELSE IF ~Bet_init(bet)
    THEN \* TypeError at line 143, outside the try block
         Unhandled(evs, bts)
    ELSE IF fault = "error"
    THEN HTTPException(500, "An error occurred while saving the bet", evs, bts)
    ELSE LET db_bet == BetRow(NextBetId(bts), bet.event_request_id,
                              bet.wallet_address, bet.prediction, bet.tokens)
         IN  Result(200, db_bet, evs, bts \cup {db_bet})

BetsOfEvent(bts, request_id) == {b \in bts : b.event_request_id = request_id}

\* Fields BetResponse requires of every row it serialises.
BetResponseFields ==
    {"event_request_id", "wallet_address", "prediction", "tokens",
     "token_name", "id"}

\* GET /events/{request_id}/bets: a Bet row has no token_name, so a non-empty
\* list fails response validation.
get_bets_for_event(request_id, evs, bts) ==
    IF EventsByRequestId(evs, request_id) = {}
    THEN HTTPException(404, "Event not found", evs, bts)
    ELSE LET rows == BetsOfEvent(bts, request_id)
         IN  IF \A b \in rows : BetResponseFields \subseteq DOMAIN b
             THEN Result(200, rows, evs, bts)
             ELSE Unhandled(evs, bts)

\* GET /top-betters: GROUP BY wallet_address, ORDER BY sum(tokens) DESC, LIMIT.
get_top_betters(limit, evs, bts) ==
    LET groups ==
            { [wallet_address |-> w,
               total_tokens |->
                   func_sum({b \in bts : b.wallet_address = w},
                            [b \in bts |-> b.tokens])[1]] :
              w \in {b.wallet_address : b \in bts} }
        key == [g \in groups |-> g.total_tokens]
    IN  { Result(200, OffsetLimit(s, 0, limit), evs, bts) :
            s \in OrderByDesc(groups, key) }

\* get_largest_bet without the ORDER BY: the first row in storage order.
get_largest_bet_unordered(evs, bts) ==
    IF bts = {}
    THEN {[status |-> 404, body |-> [detail |-> "No bets found"],
           events |-> evs, bets |-> bts]}
    ELSE { [status |-> 200,
            body |-> [event_request_id |-> b.event_request_id,
                      wallet_address |-> b.wallet_address,
                      prediction |-> b.prediction, tokens |-> b.tokens],
            events |-> evs, bets |-> bts] : b \in bts }

\* GET /largest-bet: ORDER BY tokens DESC, first row.
get_largest_bet(evs, bts) ==
    IF bts = {}
    THEN {HTTPException(404, "No bets found", evs, bts)}
    ELSE { Result(200,
                  [event_request_id |-> s[1].event_request_id,
                   wallet_address |-> s[1].wallet_address,
                   prediction |-> s[1].prediction,
                   tokens |-> s[1].tokens],
                  evs, bts) :
             s \in OrderByDesc(bts, [b \in bts |-> b.tokens]) }

\* the case expression with else_=1
CaseCount_else1(rows, p) ==
    func_sum(rows, [b \in rows |-> 1])

\* sum(case((Bet.prediction == p, 1), else_=0))
CaseCount(rows, p) ==
    func_sum(rows, [b \in rows |-> IF b.prediction = p THEN 1 ELSE 0])

\* the per-event statistics handler, registered second on GET /events/{request_id}
get_event_statistics(request_id, evs, bts) ==
    LET found == EventsByRequestId(evs, request_id)
    IN  IF found = {}
        THEN HTTPException(404, "Event not found", evs, bts)
        ELSE LET event == CHOOSE e \in found : TRUE
                 rows == BetsOfEvent(bts, request_id)
             IN  Result(200,
                        [request_id |-> request_id,
                         title |-> event.title,
                         total_bets |-> func_count(rows),
                         total_tokens |->
                             Or0(func_sum(rows, [b \in rows |-> b.tokens])),
                         yes_bets |-> Or0(CaseCount(rows, "YES")),
                         no_bets |-> Or0(CaseCount(rows, "NO"))],
                        evs, bts)

\* ------------------------------------------------------------ routing --
\* The routes in the order the decorators register them.
Routes ==
    << [method |-> "POST", path |-> "/events", endpoint |-> "create_event"],
       [method |-> "PUT", path |-> "/events/{request_id}",
        endpoint |-> "update_event_contracts"],
       [method |-> "GET", path |-> "/events", endpoint |-> "get_all_events"],
       [method |-> "GET", path |-> "/events/{request_id}",
        endpoint |-> "get_event"],
       [method |-> "POST", path |-> "/bets", endpoint |-> "create_bet"],
       [method |-> "GET", path |-> "/events/{request_id}/bets",
        endpoint |-> "get_bets_for_event"],
       [method |-> "GET", path |-> "/top-betters",
        endpoint |-> "get_top_betters"],
       [method |-> "GET", path |-> "/largest-bet",
        endpoint |-> "get_largest_bet"],
       [method |-> "GET", path |-> "/events/{request_id}",
        endpoint |-> "get_event_statistics"] >>

\* The router tries the routes in order: the first match serves the request.
Dispatch(method, path) ==
    LET matches == { i \in 1..Len(Routes) :
                       Routes[i].method = method /\ Routes[i].path = path }
        first == CHOOSE i \in matches : \A j \in matches : i <= j
    IN  Routes[first].endpoint

\* --------------------------------------------------------------- state --
\* events, bets: the rows of the two tables.  response: the last request
\* served (its method and path, the endpoint that served it, its input) and
\* the answer to it.
Response(route, op, req, r) ==
    [route |-> route, op |-> op, req |-> req, status |-> r.status,
     body |-> r.body]

\* The database outlives the process: create_all creates the tables that are
\* absent (a new database starts with both empty) and leaves populated
\* tables alone.  The rows found at start are events as create_event writes
\* them and n bets that satisfy the bets table's foreign key and the
\* BetCreate contract, with ids 1..n.
PersistedEvents ==
    { evs \in SUBSET { Event(e) : e \in EventCreate } :
        \A e1, e2 \in evs : e1.request_id = e2.request_id => e1 = e2 }

PersistedBets(evs, max, wallets, amounts) ==
    UNION { { { BetRow(i, c[i].event_request_id, c[i].wallet_address,
                       c[i].prediction, c[i].tokens) : i \in 1..n } :
              c \in [1..n -> [event_request_id : EventKeys(evs),
                              wallet_address : wallets,
                              prediction : PredictionType,
                              tokens : amounts]] } :
            n \in 0..max }

Startup ==
    [route |-> <<"startup", "">>, op |-> "startup", req |-> None,
     status |-> 0, body |-> None]

\* The service at start: a new database, or one holding events and up to
\* MaxSeed bets of one wallet and one amount.
Init ==
    /\ events \in PersistedEvents
    /\ bets \in PersistedBets(events, MaxSeed, {"0xabc"}, {5})
    /\ response = Startup

\* A database holding up to MaxBets bets of any wallet and amount.
InitPersisted ==
    /\ events \in PersistedEvents
    /\ bets \in PersistedBets(events, MaxBets, Wallets, TokenAmounts)
    /\ response = Startup

\* The request is answered with r, and r's store is the store from now on.
Serve(method, path, op, req, r) ==
    /\ events' = r.events
    /\ bets' = r.bets
    /\ response' = Response(<<method, path>>, op, req, r)

\* ------------------------------------------------------------- actions --
POST_events ==
    \E event \in EventCreate, fault \in Faults :
        Serve("POST", "/events", Dispatch("POST", "/events"),
              [event |-> event, fault |-> fault],
              create_event(event, fault, events, bets))

PUT_events_request_id ==
    \E request_id \in RequestIds, contracts \in ContractsUpdate,
       fault \in Faults :
        Serve("PUT", "/events/{request_id}", Dispatch("PUT", "/events/{request_id}"),
              [request_id |-> request_id, contracts |-> contracts,
               fault |-> fault],
              update_event_contracts(request_id, contracts, fault,
                                     events, bets))

GET_events ==
    \E skip \in 0..1, limit \in 0..MaxLimit :
        \E r \in get_all_events(skip, limit, events, bets) :
            Serve("GET", "/events", Dispatch("GET", "/events"),
                  [skip |-> skip, limit |-> limit], r)

\* Two handlers are registered on this method and path; the router's choice
\* serves the request.
GET_events_request_id ==
    \E request_id \in RequestIds :
        LET endpoint == Dispatch("GET", "/events/{request_id}")
        IN  Serve("GET", "/events/{request_id}", endpoint,
                  [request_id |-> request_id],
                  IF endpoint = "get_event"
                  THEN get_event(request_id, events, bets)
                  ELSE get_event_statistics(request_id, events, bets))

\* The body is validated against BetCreate before the handler runs; a body
\* that fails is answered 422 and the handler is not called.
POST_bets ==
    \E bet \in BetCreateInputs, fault \in Faults :
        Serve("POST", "/bets", Dispatch("POST", "/bets"),
              [bet |-> bet, fault |-> fault],
              IF BetCreateValid(bet)
              THEN create_bet(bet, fault, events, bets)
              ELSE HTTPException(422, "validation error", events, bets))

GET_events_request_id_bets ==
    \E request_id \in RequestIds :
        Serve("GET", "/events/{request_id}/bets", Dispatch("GET", "/events/{request_id}/bets"),
              [request_id |-> request_id],
              get_bets_for_event(request_id, events, bets))

GET_top_betters ==
    \E limit \in 0..MaxLimit :
        \E r \in get_top_betters(limit, events, bets) :
            Serve("GET", "/top-betters", Dispatch("GET", "/top-betters"), [limit |-> limit], r)

GET_largest_bet ==
    \E r \in get_largest_bet(events, bets) :
        Serve("GET", "/largest-bet", Dispatch("GET", "/largest-bet"), None, r)

\* get_event_statistics called as a function (the router never selects it).
Call_get_event_statistics ==
    \E request_id \in RequestIds :
        Serve("call", "", "get_event_statistics",
              [request_id |-> request_id],
              get_event_statistics(request_id, events, bets))

Next ==
    \/ POST_events
    \/ PUT_events_request_id
    \/ GET_events
    \/ GET_events_request_id
    \/ POST_bets
    \/ GET_events_request_id_bets
    \/ GET_top_betters
    \/ GET_largest_bet
    \/ Call_get_event_statistics

\* The service, every endpoint.
Spec == Init /\ [][Next]_vars

\* The read side on a populated database: the statistics handlers applied to
\* every persisted store.
NextStatistics ==
    \/ GET_top_betters
    \/ GET_largest_bet
    \/ Call_get_event_statistics

SpecStatistics == InitPersisted /\ [][NextStatistics]_vars

\* ============================================================= claims ==
\* Input of the last request, by endpoint.
LastEvent == response.req.event
LastBet == response.req.bet

\* ---------------------------------------------------------------- C1 --
\* No two stored events share a request_id.
RequestIdUnique ==
    \A e1, e2 \in events : e1.request_id = e2.request_id => e1 = e2

\* A step that serves create_event for a stored request_id.
C1_DuplicateStep ==
    (/\ response'.op = "create_event"
     /\ \E e \in events : e.request_id = response'.req.event.request_id)
    => /\ events' = events
       /\ bets' = bets
       /\ response'.req.fault = "none" => response'.status = 400

\* C1: create_event with the request_id of a stored event leaves both tables
\* as they were (the stored event keeps title, description, due_date, predict
\* and contracts; no second row appears) and, when the commit raises nothing
\* but the key conflict, answers 400; and request_id is unique across events
\* in every reachable state.
C1_DuplicateEventRejected == [](RequestIdUnique) /\ [][C1_DuplicateStep]_vars

\* A duplicate was answered 400 while the stored event differs from the
\* request in every field and has contracts set.
C1_Witness ==
    /\ response.op = "create_event"
    /\ response.status = 400
    /\ \E e \in events :
        /\ e.request_id = LastEvent.request_id
        /\ e.title # LastEvent.title
        /\ e.description # LastEvent.description
        /\ e.due_date # LastEvent.due_date
        /\ e.predict # LastEvent.predict
        /\ e.contracts # None

\* ---------------------------------------------------------------- C2 --
\* A step that serves a valid create-bet request on a stored event.
C2_Step ==
    (/\ response'.op = "create_bet"
     /\ response'.req.bet.tokens > 0
     /\ response'.req.bet.prediction \in {"YES", "NO"}
     /\ response'.req.fault = "none"
     /\ \E e \in events : e.request_id = response'.req.bet.event_request_id)
    => /\ response'.status = 200
       /\ events' = events
       /\ \E b \in bets' \ bets :
            /\ bets' = bets \cup {b}
            /\ b.id \notin {c.id : c \in bets}
            /\ b.event_request_id = response'.req.bet.event_request_id
            /\ b.wallet_address = response'.req.bet.wallet_address
            /\ b.prediction = response'.req.bet.prediction
            /\ b.tokens = response'.req.bet.tokens
            /\ response'.body = b

\* C2: a create-bet request with tokens > 0, prediction YES or NO and the
\* request_id of a stored event succeeds: exactly one bet row with the
\* request's event_request_id, wallet_address, prediction and tokens and a
\* fresh id is added, and that row is the response.
C2_CreateBetSucceeds == [][C2_Step]_vars

\* ---------------------------------------------------------------- C3 --
\* A step that serves a valid create-bet request on a missing event.
C3_Step ==
    (/\ response'.op = "create_bet"
     /\ response'.req.bet.tokens > 0
     /\ response'.req.bet.prediction \in {"YES", "NO"}
     /\ ~\E e \in events : e.request_id = response'.req.bet.event_request_id)
    => /\ response'.status = 404
       /\ events' = events
       /\ bets' = bets

\* C3: a (validated) create-bet request whose event_request_id matches no
\* stored event is answered 404, and both tables stay as they were.
C3_BetOnMissingEvent == [][C3_Step]_vars

\* A bet on a missing event was answered 404 while another event is stored.
C3_Witness ==
    /\ response.op = "create_bet"
    /\ response.status = 404
    /\ LastBet.tokens > 0
    /\ LastBet.prediction \in {"YES", "NO"}
    /\ events # {}
    /\ ~\E e \in events : e.request_id = LastBet.event_request_id

\* ---------------------------------------------------------------- C4 --
\* The stored bets satisfy the BetCreate constraints.
StoredBetsValid ==
    \A b \in bets : b.tokens > 0 /\ b.prediction \in {"YES", "NO"}

\* A step that serves an invalid create-bet request.
C4_Step ==
    (/\ response'.op = "create_bet"
     /\ \/ response'.req.bet.tokens <= 0
        \/ response'.req.bet.prediction \notin {"YES", "NO"})
    => /\ response'.status = 422
       /\ events' = events
       /\ bets' = bets

\* C4: a create-bet request with tokens <= 0 or a prediction other than YES
\* and NO is answered by validation (422) with both tables as they were; and
\* every stored bet has tokens > 0 and prediction YES or NO.
C4_InvalidBetRejected == [](StoredBetsValid) /\ [][C4_Step]_vars

\* A bet with tokens <= 0 on a stored event was answered 422.
C4_Witness ==
    /\ response.op = "create_bet"
    /\ response.status = 422
    /\ LastBet.tokens <= 0
    /\ LastBet.prediction \in {"YES", "NO"}
    /\ \E e \in events : e.request_id = LastBet.event_request_id

\* ---------------------------------------------------------------- C5 --
\* C5: a GET on /events/{request_id} for a stored event is served by the
\* statistics handler and answered with that event's total_bets,
\* total_tokens, yes_bets and no_bets.
C5_StatisticsServed ==
    (/\ response.route = <<"GET", "/events/{request_id}">>
     /\ \E e \in events : e.request_id = response.req.request_id)
    => /\ response.op = "get_event_statistics"
       /\ response.status = 200
       /\ response.body.total_bets =
            Cardinality({b \in bets :
                           b.event_request_id = response.req.request_id})
       /\ response.body.yes_bets + response.body.no_bets =
            response.body.total_bets

\* ------------------------------------------------- sums, for C6 and C7 --
\* The sum of tokens over rows, as the sum over the distinct amounts of
\* amount times the number of rows that carry it.
RECURSIVE AmountTimesCount(_, _)
AmountTimesCount(amounts, rows) ==
    IF amounts = {} THEN 0
    ELSE LET a == CHOOSE x \in amounts : TRUE
         IN  a * Cardinality({b \in rows : b.tokens = a})
             + AmountTimesCount(amounts \ {a}, rows)

TokensOf(rows) == AmountTimesCount({b.tokens : b \in rows}, rows)

\* ---------------------------------------------------------------- C6 --
\* C6: get_event_statistics on a stored key answers yes_bets + no_bets =
\* total_bets, total_bets = the number of stored bets of that key, and
\* total_tokens = the sum of their tokens (0 when there is none); on an
\* absent key it answers 404.
C6_Statistics ==
    response.op = "get_event_statistics" =>
        LET k == response.req.request_id
            rows == {b \in bets : b.event_request_id = k}
        IN  IF \E e \in events : e.request_id = k
            THEN /\ response.status = 200
                 /\ response.body.yes_bets + response.body.no_bets
                        = response.body.total_bets
                 /\ response.body.total_bets = Cardinality(rows)
                 /\ response.body.total_tokens = TokensOf(rows)
                 /\ response.body.yes_bets =
                        Cardinality({b \in rows : b.prediction = "YES"})
            ELSE response.status = 404

\* The statistics of an event with one YES bet of 5 and one NO bet of 3.
C6_Witness ==
    /\ response.op = "get_event_statistics"
    /\ response.status = 200
    /\ response.body.total_bets = 2
    /\ response.body.total_tokens = 8
    /\ response.body.yes_bets = 1
    /\ response.body.no_bets = 1

\* ---------------------------------------------------------------- C7 --
\* The stored bets of a wallet.
WalletBets(w) == {b \in bets : b.wallet_address = w}

C8_LargestBet ==
    response.op = "get_largest_bet" =>
        /\ response.status = 404 <=> bets = {}
        /\ bets # {} =>
             /\ response.status = 200
             /\ \E b \in bets :
                  /\ response.body.event_request_id = b.event_request_id
                  /\ response.body.wallet_address = b.wallet_address
                  /\ response.body.prediction = b.prediction
                  /\ response.body.tokens = b.tokens
                  /\ \A c \in bets : c.tokens <= b.tokens

\* The largest bet is on one event while a smaller bet is on another.
C8_Witness ==
    /\ response.op = "get_largest_bet"
    /\ response.status = 200
    /\ \E c \in bets :
         /\ c.tokens < response.body.tokens
         /\ c.event_request_id # response.body.event_request_id

\* ---------------------------------------------------------------- C9 --
\* A step that serves update_event_contracts.
C9_Step ==
    response'.op = "update_event_contracts" =>
        LET k == response'.req.request_id
        IN  IF ~\E e \in events : e.request_id = k
            THEN /\ response'.status = 404
                 /\ events' = events
                 /\ bets' = bets
            ELSE response'.req.fault = "none" =>
                 /\ response'.status = 200
                 /\ bets' = bets
                 /\ {e \in events' : e.request_id # k}
                        = {e \in events : e.request_id # k}
                 /\ \A old \in {e \in events : e.request_id = k} :
                      \E new \in events' :
                        /\ {e \in events' : e.request_id = k} = {new}
                        /\ new.contracts = Some(response'.req.contracts)
                        /\ new.request_id = old.request_id
                        /\ new.title = old.title
                        /\ new.description = old.description
                        /\ new.due_date = old.due_date
                        /\ new.predict = old.predict
                        /\ response'.body = new

\* C9: update_event_contracts on a key that matches no stored event answers
\* 404 and changes nothing; on a stored key (the commit going through) the
\* event's contracts becomes the supplied mapping, nothing of the old mapping
\* kept, while its request_id, title, description, due_date and predict,
\* every other event and every bet stay as they were.
C9_ContractsReplaced == [][C9_Step]_vars

\* An update went through on one of two stored events.
C9_Witness ==
    /\ response.op = "update_event_contracts"
    /\ response.status = 200
    /\ Cardinality(events) = 2
    /\ \E e \in events :
         /\ e.request_id = response.req.request_id
         /\ e.contracts = Some(response.req.contracts)
         /\ e.predict # None

\* --------------------------------------------------------------- C10 --
\* Every stored bet references a stored event.
NoDanglingBet ==
    \A b \in bets : \E e \in events : e.request_id = b.event_request_id

\* Any step of the service.
C10_Step ==
    /\ bets \subseteq bets'
    /\ \A e \in events : \E f \in events' : f.request_id = e.request_id
    /\ response'.status \in {400, 404, 500} =>
         events' = events /\ bets' = bets

====
